---- MODULE Spec2Model ----
(***************************************************************************)
(* The connection hub, the per-connection session (WebsocketClient) with   *)
(* its two pumps and Close, the Connected and InGame state handlers and    *)
(* the shared collections of gsborgz/RadiusRumbleTutorial (server).        *)
(*                                                                         *)
(* Goroutines are interleaved at their accesses to shared memory and at    *)
(* their channel operations.  A panic that no goroutine recovers ends the  *)
(* process: it sets crashed, after which no action is enabled.             *)
(*                                                                         *)
(* float64 lengths are stored in quarter units (a length v is the integer  *)
(* 4*v), so that the displacement of one physics tick, speed * delta =     *)
(* 15 * 0.05 = 0.75, is the integer 3; math.Sqrt rounds down to that grid. *)
(* Masses are carried without the common factor math.Pi.                   *)
(***************************************************************************)
EXTENDS Integers, Sequences, FiniteSets, Bags, TLC

\* ------------------------------------------------------------------ bounds
NumConns  == 3     \* connections, each with its session
MaxAccepts == 2    \* connections Hub.Run registers during a run
MaxFrames == 2     \* frames read from the transports, all sessions together
MaxTicks  == 1     \* ticks of the physics loops, all players together
MaxGames  == 4     \* InGame handlers constructed during a run
MaxGone   == 1     \* peers that go away during a run
MaxSpores == 2     \* population ceiling of the spores (1000 in hub.go)
QueueSends == 258  \* frames handled in the outbound-queue specification

\* ------------------------------------------------------- program constants
SendChanCap == 256     \* make(chan *packets.Packet, 256)
Buffer      == 10      \* validatePlayerCloseToObject(..., 10)
StartRadius == 20      \* game.player.Radius = 20
StartSpeed  == 15      \* game.player.Speed = 15.0
BatchSize   == 80      \* sendInitialSpores(80, ...)

Conns == 1..NumConns
Games == 1..MaxGames
Pumps == {"r", "w"}

Fix(v) == 4 * v

\* ------------------------------------------------------------ finite maps
EmptyMap == [k \in {} |-> 0]
Put(m, k, v) == [x \in (DOMAIN m) \cup {k} |-> IF x = k THEN v ELSE m[x]]
Del(m, k) == [x \in (DOMAIN m) \ {k} |-> m[x]]

\* ------------------------------------------------------- SharedCollection
NewSharedCollection == [objectsMap |-> EmptyMap, nextId |-> 1]

\* A Remove that empties the collection; CollectionIsAMap tells it from the
\* one of the code.
RemoveAll(coll, k) == [coll EXCEPT !.objectsMap = EmptyMap]

\* An Add that leaves nextId as it was; IdentifiersUnique and AddAssignsIds
\* tell it from the one of the code.
AddAsKeepingNextId(coll, obj, thisId) ==
    [objectsMap |-> Put(coll.objectsMap, thisId, obj), nextId |-> coll.nextId]

\* Add(obj, id...): stores under id[0] when given, else under nextId; nextId
\* is incremented in both cases.
AddAs(coll, obj, thisId) ==
    [objectsMap |-> Put(coll.objectsMap, thisId, obj), nextId |-> coll.nextId + 1]
Add(coll, obj) == AddAs(coll, obj, coll.nextId)

Remove(coll, k) == [coll EXCEPT !.objectsMap = Del(@, k)]

Found(coll, k) == k \in DOMAIN coll.objectsMap
Get(coll, k) == coll.objectsMap[k]

\* ForEach: the copy taken under the lock, which the callback then walks.
LocalCopy(coll) == coll.objectsMap

\* ---------------------------------------------------------------- packets
NewId(i) == [type |-> "Id", id |-> i]
NewDenyResponse == [type |-> "DenyResponse"]
NewOkResponse == [type |-> "OkResponse"]
NewPlayer(i, p) == [type |-> "Player", id |-> i, X |-> p.X, Y |-> p.Y,
                    Radius |-> p.Radius, Direction |-> p.Direction]
NewSporesBatch(batch) == [type |-> "SporesBatch", ids |-> batch]
Packet(senderId, msg) == [SenderId |-> senderId, Msg |-> msg]
NoPacket == Packet(0, [type |-> "none"])

\* --------------------------------------------------------- numeric helpers
RECURSIVE SqrtFrom(_, _)
SqrtFrom(n, r) == IF (r + 1) * (r + 1) > n THEN r ELSE SqrtFrom(n, r + 1)
Sqrt(n) == SqrtFrom(n, 0)

radiusToMass(radius) == radius * radius
massToRadius(mass) == Sqrt(mass)

\* InGame.nextRadius
nextRadius(radius, massDiff) == massToRadius(radiusToMass(radius) + massDiff)

\* A proximity test that refuses the exact threshold; SporeClaimRule tells
\* it from the one of the code.
validateStrictlyInside(p, objX, objY, objRadius, buffer) ==
    LET realDX == p.X - objX
        realDY == p.Y - objY
        thresholdDist == p.Radius + buffer + objRadius
    IN  realDX * realDX + realDY * realDY < thresholdDist * thresholdDist

\* InGame.validatePlayerCloseToObject: TRUE when err == nil
validatePlayerCloseToObject(p, objX, objY, objRadius, buffer) ==
    LET realDX == p.X - objX
        realDY == p.Y - objY
        realDistSq == realDX * realDX + realDY * realDY
        thresholdDist == p.Radius + buffer + objRadius
        thresholdDistSq == thresholdDist * thresholdDist
    IN  ~(realDistSq > thresholdDistSq)

\* A mass test that refuses nobody; PlayerClaimRule tells it from the one
\* of the code.
anyMassWillDo(ourMass, otherMass) == FALSE

\* ourMass <= otherMass*1.5 (the claim is refused), without the fraction
notMassiveEnough(ourMass, otherMass) == 2 * ourMass <= 3 * otherMass

\* math.Cos / math.Sin of a direction given in quarter turns
Cos(d) == CASE d % 4 = 0 -> 1 [] d % 4 = 2 -> -1 [] OTHER -> 0
Sin(d) == CASE d % 4 = 1 -> 1 [] d % 4 = 3 -> -1 [] OTHER -> 0

\* speed * cos * delta with delta = 0.05, in quarter units
Step(speed, c) == (speed * c * 5) \div 100


\* ---------------------------------------------------------------- handlers
Nil == [name |-> "None", h |-> 0]
ConnectedState == [name |-> "Connected", h |-> 0]
InGameState(h) == [name |-> "InGame", h |-> h]

\* An InGame handler with its player: &InGame{player: &objects.Player{Name: n}}
NewInGame(c, n) ==
    [client |-> c, Name |-> n, X |-> 0, Y |-> 0, Radius |-> 0, Speed |-> 0,
     Direction |-> 0, cancel |-> FALSE, done |-> FALSE, loop |-> "none",
     pkt |-> NoPacket]
NoGame == NewInGame(0, 0)

\* ------------------------------------------------------------------ world
\* The spores Hub.Run places before it serves: spore 1 of radius 15 at the
\* origin, the others of radius 10 far below it, none overlapping another.
InitSpore(i) == [X |-> 0, Y |-> 0 - Fix(100) * (i - 1),
                 Radius |-> Fix(IF i = 1 THEN 15 ELSE 10)]
InitSpores == [objectsMap |-> [i \in 1..MaxSpores |-> InitSpore(i)],
               nextId |-> MaxSpores + 1]

\* The candidates rand.Float64 draws in SpawnCoords: the first is on the
\* consumption threshold of spore 1 (20 + 10 + 15 = 45 from it).
SpawnPts == {<<Fix(45), Fix(30) * k>> : k \in 0..(NumConns - 1)}

\* An isTooClose that lets touching circles pass; SpawnAvoidsCircles tells
\* it from the one of the code.
isTooCloseStrict(x, y, radius, circles) ==
    \E o \in circles :
        LET xDist == o.X - x
            yDist == o.Y - y
            distSq == xDist * xDist + yDist * yDist
        IN  distSq < (radius + o.Radius) * (radius + o.Radius)

\* isTooClose over the circles of a collection (the empty set for nil)
isTooClose(x, y, radius, circles) ==
    \E o \in circles :
        LET xDist == o.X - x
            yDist == o.Y - y
            distSq == xDist * xDist + yDist * yDist
        IN  distSq <= (radius + o.Radius) * (radius + o.Radius)

\* SpawnCoords: the points it can return
SpawnCoords(radius, playersToAvoid, sporesToAvoid) ==
    {pt \in SpawnPts : /\ ~isTooClose(pt[1], pt[2], radius, playersToAvoid)
                       /\ ~isTooClose(pt[1], pt[2], radius, sporesToAvoid)}

\* ------------------------------------------------------------------ state
VARIABLES
    Clients,     \* hub.Clients: id -> connection
    Players,     \* SharedGameObjects.Players: id -> handler owning the *Player
    Spores,      \* SharedGameObjects.Spores: id -> spore
    thread,      \* the goroutines of Hub.Run, ReadPump ("r") and WritePump ("w")
    id,          \* client.id
    state,       \* client.state
    phase,       \* how far the installed handler is: none/entering/active/exiting
    sendChan,    \* client.sendChan
    sendClosed,  \* close(client.sendChan) has run
    conn,        \* the transport: open, down (peer gone), closed (conn.Close())
    games,       \* the InGame handlers constructed so far, with their players
    nGames,      \* how many
    tasks,       \* goroutines started with go that have not run yet
    frames,      \* frames read so far
    ticks,       \* physics ticks so far
    validated,   \* "User %s logged in successfully!" was logged
    crashed,     \* an unrecovered panic ended the process
    misdispatch, \* ProcessMessage met a handler that was not fully entered
    fanout,      \* the last broadcast: sender, registry when taken, who got it
    shared,      \* a SharedCollection with its mapMux and the goroutines calling it
    spawn        \* a call of objects.SpawnCoords: its arguments and loop variables

vars == <<Clients, Players, Spores, thread, id, state, phase, sendChan,
          sendClosed, conn, games, nGames, tasks, frames, ticks, validated,
          crashed, misdispatch, fanout, shared, spawn>>

HubT == <<0, "h">>
PumpT(c, t) == <<c, t>>
Threads == {HubT} \cup {PumpT(c, t) : c \in Conns, t \in Pumps}

\* A goroutine: where it is, the client it works on, the handler SetState is
\* installing and where SetState returns to, the packet it is sending to
\* BroadcastChan, and for the hub the id of Clients.Add and the part of the
\* ForEach copy still to visit.
NewThread(pc, c) == [pc |-> pc, c |-> c, new |-> Nil, ret |-> pc,
                     pkt |-> NoPacket, id |-> 0, copy |-> EmptyMap, todo |-> {}]
NoFanout == [pkt |-> NoPacket, registry |-> EmptyMap, got |-> [c \in Conns |-> 0]]

\* A collection as NewSharedCollection returns it, with no call under way:
\* the collection, the holder of mapMux, where ForEach is, the callback it
\* was given, its localCopy, the callback calls made so far, what the last
\* Add and the last Get returned and the last identifier Add chose itself.
NewShared == [objs |-> NewSharedCollection, mapMux |-> "free", pc |-> "idle",
              callback |-> "none", localCopy |-> EmptyMap, calls |-> EmptyBag,
              ret |-> 0, got |-> <<"", FALSE>>, lastAuto |-> 0]

\* No call of SpawnCoords
NoSpawn == [pc |-> "none", radius |-> 0, playersToAvoid |-> {},
            sporesToAvoid |-> {}, bound |-> 0, tries |-> 0, x |-> 0, y |-> 0]

\* After NewHub, the spore placement of Hub.Run and NewWebsocketClient for
\* every connection, before any of them is handed to RegisterChan.
FreshProgram ==
    /\ Clients = NewSharedCollection
    /\ Players = NewSharedCollection
    /\ Spores = InitSpores
    /\ thread = [T \in Threads |-> IF T = HubT THEN NewThread("select", 0)
                                   ELSE NewThread("off", T[1])]
    /\ id = [c \in Conns |-> 0]
    /\ state = [c \in Conns |-> Nil]
    /\ phase = [c \in Conns |-> "none"]
    /\ sendChan = [c \in Conns |-> <<>>]
    /\ sendClosed = [c \in Conns |-> FALSE]
    /\ conn = [c \in Conns |-> "open"]
    /\ games = [h \in Games |-> NoGame]
    /\ nGames = 0
    /\ tasks = EmptyBag
    /\ frames = 0
    /\ ticks = 0
    /\ validated = [c \in Conns |-> FALSE]
    /\ crashed = FALSE
    /\ misdispatch = "no"
    /\ fanout = NoFanout

InitFresh ==
    /\ FreshProgram
    /\ shared = NewShared
    /\ spawn = NoSpawn

\* The sessions that are playing in InitPlaying, and where OnEnter put them.
Seated == Conns
SeatOf(c) == <<Fix(45), Fix(30) * (IF c = 1 THEN 1 ELSE IF c = 2 THEN 0 ELSE c - 1)>>
SeatedPlayer(c) ==
    [NewInGame(c, c) EXCEPT !.X = SeatOf(c)[1], !.Y = SeatOf(c)[2],
                            !.Speed = Fix(StartSpeed), !.Radius = Fix(StartRadius)]

\* A state InitFresh leads to: the connections were registered in their
\* order, logged in and entered the game, the goroutines their OnEnter
\* started have run and their pumps have written everything queued.
InitPlaying ==
    /\ shared = NewShared
    /\ spawn = NoSpawn
    /\ Clients = [objectsMap |-> [c \in Seated |-> c], nextId |-> NumConns + 1]
    /\ Players = [objectsMap |-> [c \in Seated |-> c], nextId |-> NumConns + 1]
    /\ Spores = InitSpores
    /\ thread = [T \in Threads |->
                    IF T = HubT THEN [NewThread("select", NumConns) EXCEPT
                                         !.id = NumConns]
                    ELSE IF T[1] \notin Seated THEN NewThread("off", T[1])
                    ELSE IF T[2] = "r" THEN NewThread("read", T[1])
                    ELSE NewThread("range", T[1])]
    /\ id = [c \in Conns |-> IF c \in Seated THEN c ELSE 0]
    /\ state = [c \in Conns |-> IF c \in Seated THEN InGameState(c) ELSE Nil]
    /\ phase = [c \in Conns |-> IF c \in Seated THEN "active" ELSE "none"]
    /\ sendChan = [c \in Conns |-> <<>>]
    /\ sendClosed = [c \in Conns |-> FALSE]
    /\ conn = [c \in Conns |-> "open"]
    /\ games = [h \in Games |-> IF h \in Seated THEN SeatedPlayer(h) ELSE NoGame]
    /\ nGames = NumConns
    /\ tasks = EmptyBag
    /\ frames = 0
    /\ ticks = 0
    /\ validated = [c \in Conns |-> c \in Seated]
    /\ crashed = FALSE
    /\ misdispatch = "no"
    /\ fanout = NoFanout

Init == InitFresh \/ InitPlaying

\* ----------------------------------------------------------- the session
\* An enqueue without the default branch and without the capacity;
\* QueueBounded tells it from the one of the code.
SocketSendAsUnbounded(q, message, senderId) ==
    Append(q, Packet(senderId, message))

\* An enqueue at the head of the queue; QueueIsFifo tells it from the one of
\* the code.
SocketSendAsJumpingQueue(q, message, senderId) ==
    IF Len(q) < SendChanCap THEN <<Packet(senderId, message)>> \o q ELSE q

\* SocketSendAs: the select with a default branch on the buffered channel
SocketSendAs(q, message, senderId) ==
    IF Len(q) < SendChanCap THEN Append(q, Packet(senderId, message)) ELSE q

SocketSend(q, message, ownId) == SocketSendAs(q, message, ownId)

Go(task) == tasks (+) SetToBag({task})

\* The circles SpawnCoords and getOtherPlayer read through the *Player
\* pointers of the collection.
PlayerCircles == {games[Players.objectsMap[k]] : k \in DOMAIN Players.objectsMap}

\* Connected.OnExit, InGame.OnExit
OnExit(st, c) ==
    /\ games' = IF st.name = "InGame" /\ games[st.h].cancel
                THEN [games EXCEPT ![st.h].done = TRUE]
                ELSE games
    /\ Players' = IF st.name = "InGame" THEN Remove(Players, id[c]) ELSE Players

\* Connected.OnEnter, InGame.OnEnter
OnEnter(st, c) ==
    IF st.name = "Connected"
    THEN /\ sendChan' = [sendChan EXCEPT ![c] = SocketSend(@, NewId(id[c]), id[c])]
         /\ UNCHANGED <<games, tasks>>
    ELSE \E pt \in SpawnCoords(games[st.h].Radius, PlayerCircles, {}) :
            LET p == [games[st.h] EXCEPT !.X = pt[1], !.Y = pt[2],
                                         !.Speed = Fix(StartSpeed),
                                         !.Radius = Fix(StartRadius)]
            IN  /\ games' = [games EXCEPT ![st.h] = p]
                /\ tasks' = tasks (+) SetToBag({
                       [op |-> "AddPlayer", h |-> st.h, id |-> id[c]],
                       [op |-> "SendSpores", h |-> st.h, c |-> c]})
                /\ sendChan' = [sendChan EXCEPT
                       ![c] = SocketSend(@, NewPlayer(id[c], p), id[c])]

\* The test at the head of SetState: with a handler installed OnExit comes
\* first.
AfterCheck(c) == IF state[c] # Nil THEN "ss_exit" ELSE "ss_assign"

\* SetState(new) called by goroutine T on client c, returning to ret
CallSetState(T, c, new, ret) ==
    [thread EXCEPT ![T].pc = AfterCheck(c), ![T].c = c, ![T].new = new,
                   ![T].ret = ret]

\* SetState returns to its caller
Return(T) == [thread EXCEPT ![T].pc = thread[T].ret, ![T].new = Nil]

\* SetState, lines 54-57: prevStateName and OnExit of the installed handler
SetStateExit(T) ==
    LET c == thread[T].c IN
    /\ ~crashed
    /\ thread[T].pc = "ss_exit"
    /\ IF state[c] = Nil
       THEN /\ crashed' = TRUE
            /\ UNCHANGED <<thread, games, Players, phase>>
       ELSE /\ OnExit(state[c], c)
            /\ phase' = [phase EXCEPT ![c] = "exiting"]
            /\ thread' = [thread EXCEPT ![T].pc = "ss_assign"]
            /\ UNCHANGED crashed
    /\ UNCHANGED <<shared, spawn, Clients, Spores, id, state, sendChan, sendClosed, conn,
                   nGames, tasks, frames, ticks, validated, misdispatch, fanout>>

\* SetState, line 67: client.state = state
SetStateAssign(T) ==
    LET c == thread[T].c
        new == thread[T].new
    IN
    /\ ~crashed
    /\ thread[T].pc = "ss_assign"
    /\ state' = [state EXCEPT ![c] = new]
    /\ phase' = [phase EXCEPT ![c] = IF new = Nil THEN "none" ELSE "entering"]
    /\ thread' = IF new = Nil THEN Return(T)
                 ELSE [thread EXCEPT ![T].pc = "ss_enter"]
    /\ UNCHANGED <<shared, spawn, Clients, Players, Spores, id, sendChan, sendClosed, conn,
                   games, nGames, tasks, frames, ticks, validated, crashed,
                   misdispatch, fanout>>

\* SetState, lines 69-72: SetClient and OnEnter of whatever client.state
\* holds by now; when it has become nil the test skips them, or the call
\* that follows the test panics.
SetStateEnter(T) ==
    LET c == thread[T].c IN
    /\ ~crashed
    /\ thread[T].pc = "ss_enter"
    /\ IF state[c] = Nil
       THEN /\ \E panic \in BOOLEAN : crashed' = panic
            /\ thread' = Return(T)
            /\ UNCHANGED <<games, tasks, sendChan, phase>>
       ELSE /\ OnEnter(state[c], c)
            /\ phase' = [phase EXCEPT ![c] = "active"]
            /\ thread' = Return(T)
            /\ UNCHANGED crashed
    /\ UNCHANGED <<shared, spawn, Clients, Players, Spores, id, state, sendClosed, conn,
                   nGames, frames, ticks, validated, misdispatch, fanout>>

\* --------------------------------------------------------------- dispatch
\* What ProcessMessage finds in client.state: "nil" is the method call on
\* a nil interface, which panics.
Mis(c) == IF state[c] = Nil THEN "nil"
          ELSE IF phase[c] = "active" THEN misdispatch ELSE phase[c]

RelayedTypes == {"Player", "Chat", "SporeConsumed", "PlayerConsumed", "Spore"}

\* InGame handlers, senderId != game.client.Id(): SocketSendAs(message, senderId)
Relays(st, pkt) == st.name = "InGame" /\ pkt.Msg.type \in RelayedTypes

\* A handler that respawns on every relayed player-consumed message;
\* RespawnOnOwnConsumption tells it from the one of the code.
RespawnsAnyVictim(c, st, pkt) ==
    /\ st.name = "InGame"
    /\ pkt.Msg.type = "PlayerConsumed"

\* handlePlayerConsumed, lines 192-199: the relayed victim is this session
Respawns(c, st, pkt) ==
    /\ st.name = "InGame"
    /\ pkt.Msg.type = "PlayerConsumed"
    /\ pkt.Msg.PlayerId = id[c]

PeerSendChan(c, st, pkt) ==
    IF Relays(st, pkt)
    THEN [sendChan EXCEPT ![c] = SocketSendAs(@, pkt.Msg, pkt.SenderId)]
    ELSE sendChan

\* &InGame{player: &objects.Player{Name: game.player.Name}}
PeerGames(c, st, pkt) ==
    IF Respawns(c, st, pkt)
    THEN [games EXCEPT ![nGames + 1] = NewInGame(c, games[st.h].Name)]
    ELSE games

PeerThread(T, c, st, pkt, back) ==
    IF Respawns(c, st, pkt)
    THEN CallSetState(T, c, InGameState(nGames + 1), back)
    ELSE [thread EXCEPT ![T].pc = back]

\* -------------------------------------------------------------------- hub
\* Hub.Run, case client := <-hub.RegisterChan, up to hub.Clients.Add(client);
\* Serve goes on to start the two pumps.  The connections are numbered in
\* the order in which the hub receives them.
HubRegister(c) ==
    /\ ~crashed
    /\ thread[HubT].pc = "select"
    /\ thread[PumpT(c, "r")].pc = "off"
    /\ \A x \in 1..(c - 1) : thread[PumpT(x, "r")].pc # "off"
    /\ Clients.nextId <= MaxAccepts
    /\ Clients' = Add(Clients, c)
    /\ thread' = [thread EXCEPT ![HubT].pc = "initialize", ![HubT].c = c,
                                ![HubT].id = Clients.nextId,
                                ![PumpT(c, "r")] = NewThread("read", c),
                                ![PumpT(c, "w")] = NewThread("range", c)]
    /\ UNCHANGED <<shared, spawn, Players, Spores, id, state, phase, sendChan, sendClosed, conn,
                   games, nGames, tasks, frames, ticks, validated, crashed,
                   misdispatch, fanout>>

\* WebsocketClient.Initialize: client.id = id, then SetState(&states.Connected{})
Initialize ==
    LET c == thread[HubT].c IN
    /\ ~crashed
    /\ thread[HubT].pc = "initialize"
    /\ id' = [id EXCEPT ![c] = thread[HubT].id]
    /\ thread' = CallSetState(HubT, c, ConnectedState, "select")
    /\ UNCHANGED <<shared, spawn, Clients, Players, Spores, state, phase, sendChan, sendClosed,
                   conn, games, nGames, tasks, frames, ticks, validated, crashed,
                   misdispatch, fanout>>

\* Hub.Run, case client := <-hub.UnregisterChan, with the sender in Close:
\* hub.Clients.Remove(client.Id()), and Close goes on to client.conn.Close()
HubUnregister(T) ==
    LET c == thread[T].c IN
    /\ ~crashed
    /\ T # HubT
    /\ thread[HubT].pc = "select"
    /\ thread[T].pc = "unreg"
    /\ Clients' = Remove(Clients, id[c])
    /\ conn' = [conn EXCEPT ![c] = "closed"]
    /\ thread' = [thread EXCEPT ![T].pc = "recv"]
    /\ UNCHANGED <<shared, spawn, Players, Spores, id, state, phase, sendChan, sendClosed,
                   games, nGames, tasks, frames, ticks, validated, crashed,
                   misdispatch, fanout>>

\* The callback of hub.Clients.ForEach runs for the entries of the copy whose
\* id is not the packet's SenderId.
FanoutTargets(copy, senderId) == {k \in DOMAIN copy : k # senderId}

\* Hub.Run, case packet := <-hub.BroadcastChan: the copy ForEach takes
HubTake(pkt) ==
    LET copy == LocalCopy(Clients)
        todo == FanoutTargets(copy, pkt.SenderId)
    IN  [thread[HubT] EXCEPT !.pc = IF todo = {} THEN "select" ELSE "fanout",
                             !.pkt = pkt, !.copy = copy, !.todo = todo]

Taken(pkt) == [pkt |-> pkt, registry |-> Clients.objectsMap,
               got |-> [c \in Conns |-> 0]]

\* client.Broadcast of a handler running on a pump, received by the hub
HubBroadcast(T) ==
    /\ ~crashed
    /\ T # HubT
    /\ thread[HubT].pc = "select"
    /\ thread[T].pc = "bcast"
    /\ thread' = [thread EXCEPT ![HubT] = HubTake(thread[T].pkt),
                                ![T].pc = thread[T].ret, ![T].pkt = NoPacket]
    /\ fanout' = Taken(thread[T].pkt)
    /\ UNCHANGED <<shared, spawn, Clients, Players, Spores, id, state, phase, sendChan,
                   sendClosed, conn, games, nGames, tasks, frames, ticks,
                   validated, crashed, misdispatch>>

\* client.Broadcast(updatePacket) of syncPlayer, received by the hub; the
\* loop goes on to go game.client.SocketSend(updatePacket)
HubBroadcastSync(h) ==
    /\ ~crashed
    /\ thread[HubT].pc = "select"
    /\ games[h].loop = "bcast"
    /\ thread' = [thread EXCEPT ![HubT] = HubTake(games[h].pkt)]
    /\ fanout' = Taken(games[h].pkt)
    /\ games' = [games EXCEPT ![h].loop = "run", ![h].pkt = NoPacket]
    /\ tasks' = Go([op |-> "SocketSend", c |-> games[h].client,
                    msg |-> games[h].pkt.Msg])
    /\ UNCHANGED <<shared, spawn, Clients, Players, Spores, id, state, phase, sendChan,
                   sendClosed, conn, nGames, frames, ticks, validated, crashed,
                   misdispatch>>

\* One call of the ForEach callback: client.ProcessMessage(packet.SenderId,
\* packet.Msg) on the hub's goroutine.
HubDispatch(k) ==
    /\ ~crashed
    /\ thread[HubT].pc = "fanout"
    /\ k \in thread[HubT].todo
    /\ LET c == thread[HubT].copy[k]
           pkt == thread[HubT].pkt
           st == state[c]
           rest == thread[HubT].todo \ {k}
           back == IF st = Nil \/ rest # {} THEN "fanout" ELSE "select"
       IN  /\ Respawns(c, st, pkt) => nGames < MaxGames
           /\ fanout' = [fanout EXCEPT !.got[c] = @ + 1]
           /\ misdispatch' = Mis(c)
           /\ crashed' = (st = Nil)
           /\ sendChan' = PeerSendChan(c, st, pkt)
           /\ games' = PeerGames(c, st, pkt)
           /\ nGames' = IF Respawns(c, st, pkt) THEN nGames + 1 ELSE nGames
           /\ thread' = [PeerThread(HubT, c, st, pkt, back) EXCEPT ![HubT].todo = rest]
    /\ UNCHANGED <<shared, spawn, Clients, Players, Spores, id, state, phase, sendClosed, conn,
                   tasks, frames, ticks, validated>>

\* ------------------------------------------------------------- ReadPump
\* Sender ids a frame can carry: 0 is replaced by the session's own id.
FrameSenders == {0}
Directions == {1}

\* ReadPump: a frame has been read and unmarshalled; ProcessMessage follows.
ReadFrameWithin(c, budget) ==
    /\ ~crashed
    /\ thread[PumpT(c, "r")].pc = "read"
    /\ conn[c] = "open"
    /\ frames < budget

ReadFrame(c) == ReadFrameWithin(c, MaxFrames)

\* The peer sends the frames of the game once it is in the game; the switch
\* of Connected.HandleMessage has no case for them.
GameFrame(c) == ReadFrame(c) /\ state[c].name = "InGame"

SenderOf(c, s) == IF s = 0 THEN id[c] ELSE s

\* The credential store, godotenv.Load and bcrypt, as the environment decides
LoginOutcomes == {"unknown user", "no .env", "wrong password", "ok"}

\* A refusal that names its cause; LoginAnsweredUnlessFull tells it from
\* the one of the code.
LoginResponseTelling(outcome) ==
    IF outcome = "ok" THEN NewOkResponse
    ELSE [type |-> "DenyResponse", cause |-> outcome]

\* Connected.handleLoginRequest: the message it sends
LoginResponse(outcome) ==
    IF outcome = "ok" THEN NewOkResponse ELSE NewDenyResponse

\* A login request read from the transport, with the outcomes the
\* credential check can have
RecvLoginRequest(c, s, budget, outcomes) ==
    LET st == state[c]
        senderId == SenderOf(c, s)
    IN
    /\ ReadFrameWithin(c, budget)
    /\ frames' = frames + 1
    /\ misdispatch' = Mis(c)
    /\ crashed' = (st = Nil)
    /\ IF st.name = "Connected" /\ senderId = id[c]
       THEN \E outcome \in outcomes :
               /\ sendChan' = [sendChan EXCEPT
                      ![c] = SocketSend(@, LoginResponse(outcome), id[c])]
               /\ validated' = [validated EXCEPT ![c] = @ \/ outcome = "ok"]
       ELSE UNCHANGED <<sendChan, validated>>
    /\ UNCHANGED <<shared, spawn, Clients, Players, Spores, thread, id, state, phase,
                   sendClosed, conn, games, nGames, tasks, ticks, fanout>>

\* The entry into the game: SetState(&InGame{player: &objects.Player{Name}})
\* while the Connected handler processes a frame of a session whose login
\* was acknowledged.
EnterGame(c) ==
    /\ ReadFrame(c)
    /\ state[c] = ConnectedState
    /\ validated[c]
    /\ nGames < MaxGames
    /\ frames' = frames + 1
    /\ nGames' = nGames + 1
    /\ games' = [games EXCEPT ![nGames + 1] = NewInGame(c, c)]
    /\ thread' = CallSetState(PumpT(c, "r"), c, InGameState(nGames + 1), "read")
    /\ UNCHANGED <<shared, spawn, Clients, Players, Spores, id, state, phase, sendChan,
                   sendClosed, conn, tasks, ticks, validated, crashed,
                   misdispatch, fanout>>

\* A frame that only the relay of a peer-originated message can act on, or
\* that the installed handler ignores.
RecvPeer(c, st, pkt) ==
    /\ Respawns(c, st, pkt) => nGames < MaxGames
    /\ sendChan' = PeerSendChan(c, st, pkt)
    /\ games' = PeerGames(c, st, pkt)
    /\ nGames' = IF Respawns(c, st, pkt) THEN nGames + 1 ELSE nGames
    /\ thread' = PeerThread(PumpT(c, "r"), c, st, pkt, "read")

\* client.Broadcast(message): the send on the unbuffered BroadcastChan
Broadcast(T, c, msg) ==
    [thread EXCEPT ![T].pc = "bcast", ![T].pkt = Packet(id[c], msg),
                   ![T].ret = "read"]

SelfOriginated(c, st, senderId) == st.name = "InGame" /\ senderId = id[c]

\* InGame.handleChat
RecvChat(c, s) ==
    LET st == state[c]
        senderId == SenderOf(c, s)
        msg == [type |-> "Chat"]
    IN
    /\ GameFrame(c)
    /\ frames' = frames + 1
    /\ misdispatch' = Mis(c)
    /\ crashed' = (st = Nil)
    /\ IF SelfOriginated(c, st, senderId)
       THEN /\ thread' = Broadcast(PumpT(c, "r"), c, msg)
            /\ UNCHANGED <<sendChan, games, nGames>>
       ELSE RecvPeer(c, st, Packet(senderId, msg))
    /\ UNCHANGED <<shared, spawn, Clients, Players, Spores, id, state, phase, sendClosed, conn,
                   tasks, ticks, validated, fanout>>

\* InGame.handlePlayerDirection
RecvPlayerDirection(c, s, d) ==
    LET st == state[c]
        senderId == SenderOf(c, s)
    IN
    /\ GameFrame(c)
    /\ frames' = frames + 1
    /\ misdispatch' = Mis(c)
    /\ crashed' = (st = Nil)
    /\ games' = IF SelfOriginated(c, st, senderId)
                THEN [games EXCEPT
                        ![st.h].Direction = d,
                        ![st.h].cancel = TRUE,
                        ![st.h].loop = IF games[st.h].cancel THEN @ ELSE "run"]
                ELSE games
    /\ UNCHANGED <<shared, spawn, Clients, Players, Spores, thread, id, state, phase, sendChan,
                   sendClosed, conn, nGames, tasks, ticks, validated, fanout>>

\* getSpore and validatePlayerCloseToObject of handleSporeConsumed
SporeClaimValid(p, sporeId) ==
    /\ Found(Spores, sporeId)
    /\ validatePlayerCloseToObject(p, Get(Spores, sporeId).X, Get(Spores, sporeId).Y,
                                   Get(Spores, sporeId).Radius, Fix(Buffer))

\* handleSporeConsumed, line 181: the id handed to Spores.Remove
SporeToRemove(senderId, sporeId) == senderId

\* InGame.handleSporeConsumed
RecvSporeConsumed(c, s, sporeId) ==
    LET st == state[c]
        senderId == SenderOf(c, s)
        msg == [type |-> "SporeConsumed", SporeId |-> sporeId, NewRadius |-> 0]
    IN
    /\ GameFrame(c)
    /\ frames' = frames + 1
    /\ misdispatch' = Mis(c)
    /\ crashed' = (st = Nil)
    /\ IF SelfOriginated(c, st, senderId)
       THEN IF SporeClaimValid(games[st.h], sporeId)
            THEN LET sporeMass == radiusToMass(Get(Spores, sporeId).Radius)
                     newRadius == nextRadius(games[st.h].Radius, sporeMass)
                 IN  /\ games' = [games EXCEPT ![st.h].Radius = newRadius]
                     /\ tasks' = Go([op |-> "RemoveSpore", claim |-> sporeId,
                                     id |-> SporeToRemove(senderId, sporeId)])
                     /\ thread' = Broadcast(PumpT(c, "r"), c,
                                            [msg EXCEPT !.NewRadius = newRadius])
                     /\ UNCHANGED <<sendChan, nGames>>
            ELSE UNCHANGED <<games, tasks, thread, sendChan, nGames>>
       ELSE /\ RecvPeer(c, st, Packet(senderId, msg))
            /\ UNCHANGED tasks
    /\ UNCHANGED <<shared, spawn, Clients, Players, Spores, id, state, phase, sendClosed, conn,
                   ticks, validated, fanout>>

\* getOtherPlayer, the mass test and validatePlayerCloseToObject of
\* handlePlayerConsumed; other is read through the pointer in the collection
PlayerClaimValid(p, otherId) ==
    /\ Found(Players, otherId)
    /\ LET other == games[Get(Players, otherId)] IN
       /\ ~notMassiveEnough(radiusToMass(p.Radius), radiusToMass(other.Radius))
       /\ validatePlayerCloseToObject(p, other.X, other.Y, other.Radius, Fix(Buffer))

\* InGame.handlePlayerConsumed
RecvPlayerConsumed(c, s, otherId) ==
    LET st == state[c]
        senderId == SenderOf(c, s)
        msg == [type |-> "PlayerConsumed", PlayerId |-> otherId, NewRadius |-> 0]
    IN
    /\ GameFrame(c)
    /\ frames' = frames + 1
    /\ misdispatch' = Mis(c)
    /\ crashed' = (st = Nil)
    /\ IF SelfOriginated(c, st, senderId)
       THEN IF PlayerClaimValid(games[st.h], otherId)
            THEN LET otherMass == radiusToMass(games[Get(Players, otherId)].Radius)
                     newRadius == nextRadius(games[st.h].Radius, otherMass)
                 IN  /\ games' = [games EXCEPT ![st.h].Radius = newRadius]
                     /\ tasks' = Go([op |-> "RemovePlayer", id |-> otherId])
                     /\ thread' = Broadcast(PumpT(c, "r"), c,
                                            [msg EXCEPT !.NewRadius = newRadius])
                     /\ UNCHANGED <<sendChan, nGames>>
            ELSE UNCHANGED <<games, tasks, thread, sendChan, nGames>>
       ELSE /\ RecvPeer(c, st, Packet(senderId, msg))
            /\ UNCHANGED tasks
    /\ UNCHANGED <<shared, spawn, Clients, Players, Spores, id, state, phase, sendClosed, conn,
                   ticks, validated, fanout>>

\* The peer goes away: reads and writes on the transport fail from now on.
Disconnect(c) ==
    /\ ~crashed
    /\ conn[c] = "open"
    /\ thread[PumpT(c, "r")].pc # "off"
    /\ Cardinality({x \in Conns : conn[x] # "open"}) < MaxGone
    /\ conn' = [conn EXCEPT ![c] = "down"]
    /\ UNCHANGED <<shared, spawn, Clients, Players, Spores, thread, id, state, phase, sendChan,
                   sendClosed, games, nGames, tasks, frames, ticks, validated,
                   crashed, misdispatch, fanout>>

\* Close(reason) up to the test at the head of SetState(nil)
CallClose(T, c) == CallSetState(T, c, Nil, "unreg")

\* ReadPump: conn.ReadMessage fails, the loop breaks, the deferred Close runs
ReadError(c) ==
    /\ ~crashed
    /\ thread[PumpT(c, "r")].pc = "read"
    /\ conn[c] # "open"
    /\ thread' = CallClose(PumpT(c, "r"), c)
    /\ UNCHANGED <<shared, spawn, Clients, Players, Spores, id, state, phase, sendChan,
                   sendClosed, conn, games, nGames, tasks, frames, ticks,
                   validated, crashed, misdispatch, fanout>>

\* ------------------------------------------------------------ WritePump
\* WritePump: one packet of the range over sendChan; when conn.NextWriter
\* fails the pump returns and the deferred Close runs.
WritePacket(c) ==
    /\ ~crashed
    /\ thread[PumpT(c, "w")].pc = "range"
    /\ Len(sendChan[c]) > 0 \/ sendClosed[c]
    /\ sendChan' = [sendChan EXCEPT ![c] = IF Len(@) > 0 THEN Tail(@) ELSE @]
    /\ thread' = IF Len(sendChan[c]) > 0 /\ conn[c] = "open"
                 THEN thread
                 ELSE CallClose(PumpT(c, "w"), c)
    /\ UNCHANGED <<shared, spawn, Clients, Players, Spores, id, state, phase, sendClosed, conn,
                   games, nGames, tasks, frames, ticks, validated, crashed,
                   misdispatch, fanout>>

\* Close, lines 186-188: the receive from sendChan; on a closed channel it
\* yields at once and close(client.sendChan) panics on the closed channel.
CloseReceive(T) ==
    LET c == thread[T].c IN
    /\ ~crashed
    /\ thread[T].pc = "recv"
    /\ sendClosed[c] \/ Len(sendChan[c]) > 0
    /\ IF sendClosed[c] /\ Len(sendChan[c]) = 0
       THEN /\ crashed' = TRUE
            /\ UNCHANGED <<sendChan, thread>>
       ELSE /\ sendChan' = [sendChan EXCEPT ![c] = Tail(@)]
            /\ thread' = [thread EXCEPT ![T].pc = "done"]
            /\ UNCHANGED crashed
    /\ UNCHANGED <<shared, spawn, Clients, Players, Spores, id, state, phase, sendClosed, conn,
                   games, nGames, tasks, frames, ticks, validated, misdispatch,
                   fanout>>

\* ------------------------------------------------- goroutines started by go
Done(task) == tasks (-) SetToBag({task})

\* go game.client.SharedGameObjects().Players.Add(game.player, game.client.Id())
RunAddPlayer ==
    \E task \in BagToSet(tasks) :
        /\ ~crashed
        /\ task.op = "AddPlayer"
        /\ Players' = AddAs(Players, task.h, task.id)
        /\ tasks' = Done(task)
        /\ UNCHANGED <<shared, spawn, Clients, Spores, thread, id, state, phase, sendChan,
                       sendClosed, conn, games, nGames, frames, ticks, validated,
                       crashed, misdispatch, fanout>>

\* go game.client.SharedGameObjects().Spores.Remove(senderId); the task
\* remembers in claim which spore the validated message named.
RunRemoveSpore ==
    \E task \in BagToSet(tasks) :
        /\ ~crashed
        /\ task.op = "RemoveSpore"
        /\ Spores' = Remove(Spores, task.id)
        /\ tasks' = Done(task)
        /\ UNCHANGED <<shared, spawn, Clients, Players, thread, id, state, phase, sendChan,
                       sendClosed, conn, games, nGames, frames, ticks, validated,
                       crashed, misdispatch, fanout>>

\* go game.client.SharedGameObjects().Players.Remove(otherId)
RunRemovePlayer ==
    \E task \in BagToSet(tasks) :
        /\ ~crashed
        /\ task.op = "RemovePlayer"
        /\ Players' = Remove(Players, task.id)
        /\ tasks' = Done(task)
        /\ UNCHANGED <<shared, spawn, Clients, Spores, thread, id, state, phase, sendChan,
                       sendClosed, conn, games, nGames, frames, ticks, validated,
                       crashed, misdispatch, fanout>>

\* A batch that is sent when it holds more than batchSize spores;
\* SporesStreamedOnce tells it from the one of the code.
OverfilledBatch(ids) == {i \in ids : Cardinality({j \in ids : j <= i}) <= BatchSize + 1}

\* sendInitialSpores, lines 113-119: the batch the callback has filled when
\* len(sporesBatch) >= batchSize, or what is left at the end of the range;
\* the range is taken in the order of the identifiers.
FilledBatch(ids) == {i \in ids : Cardinality({j \in ids : j <= i}) <= BatchSize}

\* The batches sendInitialSpores sends for a copy of the spores: batchSize
\* spores each, and the remaining ones after the walk.
RECURSIVE SporeBatches(_)
SporeBatches(ids) ==
    IF ids = {} THEN <<>>
    ELSE <<NewSporesBatch(FilledBatch(ids))>> \o SporeBatches(ids \ FilledBatch(ids))

RECURSIVE SendAll(_, _, _)
SendAll(q, msgs, ownId) ==
    IF msgs = <<>> THEN q
    ELSE SendAll(SocketSend(q, Head(msgs), ownId), Tail(msgs), ownId)

\* go game.sendInitialSpores(80, 25 * time.Millisecond)
RunSendInitialSpores ==
    \E task \in BagToSet(tasks) :
        /\ ~crashed
        /\ task.op = "SendSpores"
        /\ sendChan' = [sendChan EXCEPT ![task.c] =
               SendAll(@, SporeBatches(DOMAIN LocalCopy(Spores)), id[task.c])]
        /\ tasks' = Done(task)
        /\ UNCHANGED <<shared, spawn, Clients, Players, Spores, thread, id, state, phase,
                       sendClosed, conn, games, nGames, frames, ticks, validated,
                       crashed, misdispatch, fanout>>

\* go game.client.SocketSend(updatePacket)
RunSocketSend ==
    \E task \in BagToSet(tasks) :
        /\ ~crashed
        /\ task.op = "SocketSend"
        /\ sendChan' = [sendChan EXCEPT ![task.c] = SocketSend(@, task.msg, id[task.c])]
        /\ tasks' = Done(task)
        /\ UNCHANGED <<shared, spawn, Clients, Players, Spores, thread, id, state, phase,
                       sendClosed, conn, games, nGames, frames, ticks, validated,
                       crashed, misdispatch, fanout>>

\* ------------------------------------------------------- the physics loop
\* updatePlayerLoop, case <-ticker.C: syncPlayer up to client.Broadcast
SyncPlayer(h) ==
    LET p == games[h]
        moved == [p EXCEPT !.X = p.X + Step(p.Speed, Cos(p.Direction)),
                           !.Y = p.Y + Step(p.Speed, Sin(p.Direction))]
        i == id[p.client]
    IN
    /\ ~crashed
    /\ games[h].loop = "run"
    /\ ticks < MaxTicks
    /\ ticks' = ticks + 1
    /\ games' = [games EXCEPT ![h] = [moved EXCEPT !.loop = "bcast",
                                        !.pkt = Packet(i, NewPlayer(i, moved))]]
    /\ UNCHANGED <<shared, spawn, Clients, Players, Spores, thread, id, state, phase, sendChan,
                   sendClosed, conn, nGames, tasks, frames, validated, crashed,
                   misdispatch, fanout>>

\* updatePlayerLoop, case <-ctx.Done(): return
LoopDone(h) ==
    /\ ~crashed
    /\ games[h].loop = "run"
    /\ games[h].done
    /\ games' = [games EXCEPT ![h].loop = "stopped"]
    /\ UNCHANGED <<shared, spawn, Clients, Players, Spores, thread, id, state, phase, sendChan,
                   sendClosed, conn, nGames, tasks, frames, ticks, validated,
                   crashed, misdispatch, fanout>>

\* ------------------------------------------------------------ the system
Next ==
    \/ \E c \in Conns : HubRegister(c)
    \/ Initialize
    \/ \E T \in Threads : SetStateExit(T)
    \/ \E T \in Threads : SetStateAssign(T)
    \/ \E T \in Threads : SetStateEnter(T)
    \/ \E T \in Threads : HubUnregister(T)
    \/ \E T \in Threads : HubBroadcast(T)
    \/ \E h \in Games : HubBroadcastSync(h)
    \/ \E k \in 1..NumConns : HubDispatch(k)
    \/ \E c \in Conns, s \in FrameSenders :
          RecvLoginRequest(c, s, MaxFrames, LoginOutcomes)
    \/ \E c \in Conns : EnterGame(c)
    \/ \E c \in Conns, s \in FrameSenders : RecvChat(c, s)
    \/ \E c \in Conns, s \in FrameSenders, d \in Directions : RecvPlayerDirection(c, s, d)
    \/ \E c \in Conns, s \in FrameSenders, k \in 1..MaxSpores : RecvSporeConsumed(c, s, k)
    \/ \E c \in Conns, s \in FrameSenders, k \in Conns : RecvPlayerConsumed(c, s, k)
    \/ \E c \in Conns : Disconnect(c)
    \/ \E c \in Conns : ReadError(c)
    \/ \E c \in Conns : WritePacket(c)
    \/ \E T \in Threads : CloseReceive(T)
    \/ RunAddPlayer
    \/ RunRemoveSpore
    \/ RunRemovePlayer
    \/ RunSendInitialSpores
    \/ RunSocketSend
    \/ \E h \in Games : SyncPlayer(h)
    \/ \E h \in Games : LoopDone(h)

Spec == Init /\ [][Next]_vars

\* ------------------------------------------- one session's outbound queue
\* Connection 1 alone: its peer sends login requests that the credential
\* check refuses, QueueSends of them, and reads the answers at its own pace.
DeniedOutcomes == LoginOutcomes \ {"ok"}

\* Connection 1 was registered, Initialize has returned, its Connected
\* handler is entered and q is its outbound queue.
Lobby(q, spores) ==
    /\ shared = NewShared
    /\ spawn = NoSpawn
    /\ Clients = Add(NewSharedCollection, 1)
    /\ Players = NewSharedCollection
    /\ Spores = spores
    /\ thread = [T \in Threads |->
                    IF T = HubT THEN [NewThread("select", 1) EXCEPT
                                         !.id = 1]
                    ELSE IF T[1] # 1 THEN NewThread("off", T[1])
                    ELSE IF T[2] = "r" THEN NewThread("read", T[1])
                    ELSE NewThread("range", T[1])]
    /\ id = [c \in Conns |-> IF c = 1 THEN 1 ELSE 0]
    /\ state = [c \in Conns |-> IF c = 1 THEN ConnectedState ELSE Nil]
    /\ phase = [c \in Conns |-> IF c = 1 THEN "active" ELSE "none"]
    /\ sendChan = [c \in Conns |-> IF c = 1 THEN q ELSE <<>>]
    /\ sendClosed = [c \in Conns |-> FALSE]
    /\ conn = [c \in Conns |-> "open"]
    /\ games = [h \in Games |-> NoGame]
    /\ nGames = 0
    /\ tasks = EmptyBag
    /\ frames = 0
    /\ ticks = 0
    /\ validated = [c \in Conns |-> FALSE]
    /\ crashed = FALSE
    /\ misdispatch = "no"
    /\ fanout = NoFanout

\* A state InitFresh leads to: the Id packet of Connected.OnEnter is in the
\* queue.
InitLobby == Lobby(SocketSend(<<>>, NewId(1), 1), InitSpores)

QueueLoginRequest == RecvLoginRequest(1, 0, QueueSends, DeniedOutcomes)

NextQueue ==
    \/ RecvLoginRequest(1, 0, QueueSends, DeniedOutcomes)
    \/ WritePacket(1)

SpecQueue == InitLobby /\ [][NextQueue]_vars

\* ------------------------------------------------- login in the lobby
\* Connection 1 in the lobby: its peer sends MaxLogins login requests, under
\* its own sender id (0) or a foreign one, with any outcome of the credential
\* check, either into the queue of InitLobby or into a queue that refused
\* requests have filled up to one place, as SpecQueue fills it.
MaxLogins == 3
LoginSenders == {0, 2}

Backlog == [i \in 1..(SendChanCap - 1) |->
               IF i = 1 THEN Packet(1, NewId(1)) ELSE Packet(1, NewDenyResponse)]

InitBacklog == Lobby(Backlog, InitSpores)

NextLogin ==
    \/ \E s \in LoginSenders : RecvLoginRequest(1, s, MaxLogins, LoginOutcomes)
    \/ WritePacket(1)

SpecLogin == (InitLobby \/ InitBacklog) /\ [][NextLogin]_vars

\* ------------------------------------------------- entering the game
\* Connection 1 logs in and enters the game while the hub holds n spores,
\* n up to MaxStreamed: enough for two full batches and one more spore.
MaxStreamed == 161

SporesPlaced(n) == [objectsMap |-> [i \in 1..n |-> InitSpore(i)], nextId |-> n + 1]

InitStream ==
    \E n \in 0..MaxStreamed : Lobby(SocketSend(<<>>, NewId(1), 1), SporesPlaced(n))

NextStream ==
    \/ RecvLoginRequest(1, 0, MaxFrames, {"ok"})
    \/ EnterGame(1)
    \/ \E T \in Threads : SetStateExit(T)
    \/ \E T \in Threads : SetStateAssign(T)
    \/ \E T \in Threads : SetStateEnter(T)
    \/ RunAddPlayer
    \/ RunSendInitialSpores
    \/ WritePacket(1)

SpecStream == InitStream /\ [][NextStream]_vars

\* ------------------------------------- a SharedCollection and its callers
\* One collection that starts as NewSharedCollection returns it. Any
\* goroutine calls Add, Remove and Get on it; one goroutine calls ForEach
\* with a callback that calls back into the same collection.
MaxKey == 2
Keys == 1..MaxKey
Objs == {"a", "b"}
Callbacks == {"plain", "Remove", "Add", "Get"}

program == <<Clients, Players, Spores, thread, id, state, phase, sendChan,
             sendClosed, conn, games, nGames, tasks, frames, ticks, validated,
             crashed, misdispatch, fanout>>

\* Add(obj): Lock, store under nextId, Unlock, return the identifier
CallAdd(obj) ==
    /\ shared.mapMux = "free"
    /\ shared.objs.nextId <= MaxKey
    /\ shared' = [shared EXCEPT !.objs = Add(@, obj),
                                !.ret = shared.objs.nextId,
                                !.lastAuto = shared.objs.nextId]
    /\ UNCHANGED <<program, spawn>>

\* Add(obj, k)
CallAddAs(obj, k) ==
    /\ shared.mapMux = "free"
    /\ shared.objs.nextId <= MaxKey
    /\ shared' = [shared EXCEPT !.objs = AddAs(@, obj, k), !.ret = k]
    /\ UNCHANGED <<program, spawn>>

\* Remove(k)
CallRemove(k) ==
    /\ shared.mapMux = "free"
    /\ shared' = [shared EXCEPT !.objs = Remove(@, k)]
    /\ UNCHANGED <<program, spawn>>

\* Get(k): the object, or the zero value, and found
GetResult(coll, k) == <<IF Found(coll, k) THEN Get(coll, k) ELSE "", Found(coll, k)>>

CallGet(k) ==
    /\ shared.mapMux = "free"
    /\ shared' = [shared EXCEPT !.got = GetResult(shared.objs, k)]
    /\ UNCHANGED <<program, spawn>>

\* A ForEach that keeps mapMux until it returns; ForEachReturns tells it
\* from the one of the code.
HeldThroughRange == "ForEach"

\* ForEach, line 63: collection.mapMux.Unlock() before the range
UnlockAfterCopy == "free"

\* ForEach, lines 56-63: Lock, copy objectsMap into localCopy, Unlock
ForEachCopy(cb) ==
    /\ shared.mapMux = "free"
    /\ shared.pc = "idle"
    /\ shared' = [shared EXCEPT !.pc = "range", !.callback = cb,
                                !.localCopy = LocalCopy(shared.objs),
                                !.mapMux = UnlockAfterCopy]
    /\ UNCHANGED <<program, spawn>>

\* A range over the map of the collection itself; ForEachVisitsSnapshot
\* tells it from the one of the code.
RangedLive(sh) == sh.objs.objectsMap

\* ForEach, line 66: for id, obj := range localCopy
Ranged(sh) == sh.localCopy

Called(sh) == {call[1] : call \in BagToSet(sh.calls)}
Pending(sh) == DOMAIN Ranged(sh) \ Called(sh)

\* ForEach, line 67: callback(id, obj) for one entry of the range; the
\* callback calls Remove(j), Add(obj), Get(j) on the collection or nothing,
\* and a call of the collection waits for mapMux.
Callback(k, j, obj) ==
    /\ shared.pc = "range"
    /\ k \in Pending(shared)
    /\ shared.callback # "plain" => shared.mapMux = "free"
    /\ shared' =
         [shared EXCEPT
            !.calls = @ (+) SetToBag({<<k, Ranged(shared)[k]>>}),
            !.objs = CASE shared.callback = "Remove" -> Remove(@, j)
                       [] shared.callback = "Add" -> Add(@, obj)
                       [] OTHER -> @,
            !.ret = IF shared.callback = "Add" THEN shared.objs.nextId ELSE @,
            !.lastAuto = IF shared.callback = "Add" THEN shared.objs.nextId ELSE @,
            !.got = IF shared.callback = "Get"
                    THEN GetResult(shared.objs, j) ELSE @]
    /\ UNCHANGED <<program, spawn>>

\* ForEach returns when the range is exhausted
ForEachReturn ==
    /\ shared.pc = "range"
    /\ Pending(shared) = {}
    /\ shared' = [shared EXCEPT !.pc = "done", !.mapMux = "free"]
    /\ UNCHANGED <<program, spawn>>

NextShared ==
    \/ \E obj \in Objs : CallAdd(obj)
    \/ \E obj \in Objs, k \in Keys : CallAddAs(obj, k)
    \/ \E k \in Keys : CallRemove(k)
    \/ \E k \in Keys : CallGet(k)
    \/ \E cb \in Callbacks : ForEachCopy(cb)
    \/ \E k \in 1..(2 * MaxKey), j \in Keys, obj \in Objs : Callback(k, j, obj)
    \/ ForEachReturn

\* The goroutine inside ForEach is scheduled whenever it can run.
SpecShared ==
    /\ InitFresh
    /\ [][NextShared]_vars
    /\ WF_vars(\E k \in 1..(2 * MaxKey), j \in Keys, obj \in Objs : Callback(k, j, obj))
    /\ WF_vars(ForEachReturn)

\* --------------------------------------------------- a call of SpawnCoords
\* SpawnCoords called with a radius and two collections that nobody changes
\* meanwhile. rand.Float64 draws one of Draws values k / Draws, so that a
\* candidate coordinate is bound * (2k - Draws) / Draws.
InitialBound == 3000
maxTries == 25
MaxBound == 6000
Draws == 6
Radii == {0, 10}

\* A circle over the whole initial square, one that a circle of radius 10 at
\* (1000, 0) touches, and a small one.
Big == [X |-> 0, Y |-> 0, Radius |-> 4500]
Ring == [X |-> 0, Y |-> 0, Radius |-> 990]
Dot == [X |-> 2000, Y |-> 0, Radius |-> 10]
Avoided == {{}, {Big}, {Ring}, {Ring, Dot}}

InitSpawn ==
    /\ FreshProgram
    /\ shared = NewShared
    /\ \E radius \in Radii, playersToAvoid \in Avoided, sporesToAvoid \in Avoided :
          spawn = [pc |-> "loop", radius |-> radius,
                   playersToAvoid |-> playersToAvoid,
                   sporesToAvoid |-> sporesToAvoid,
                   bound |-> InitialBound, tries |-> 0, x |-> 0, y |-> 0]

Candidate(bound, k) == (bound * (2 * k - Draws)) \div Draws

\* A loop that counts its tries and never widens the square;
\* SpawnCoordsReturns tells it from the one of the code.
RetryInPlace(sp) ==
    [sp EXCEPT !.tries = IF @ + 1 >= maxTries THEN 0 ELSE @ + 1]

\* SpawnCoords, lines 139-144: tries++ and the doubling of bound
Retry(sp) ==
    IF sp.tries + 1 >= maxTries
    THEN [sp EXCEPT !.bound = 2 * @, !.tries = 0]
    ELSE [sp EXCEPT !.tries = @ + 1]

\* SpawnCoords, lines 130-144: one pass of the loop with the candidate drawn
SpawnIterate(kx, ky) ==
    LET x == Candidate(spawn.bound, kx)
        y == Candidate(spawn.bound, ky)
        closeToPlayer == isTooClose(x, y, spawn.radius, spawn.playersToAvoid)
        closeToSpore == isTooClose(x, y, spawn.radius, spawn.sporesToAvoid)
    IN  /\ spawn.pc = "loop"
        /\ IF ~closeToPlayer /\ ~closeToSpore
           THEN spawn' = [spawn EXCEPT !.pc = "returned", !.x = x, !.y = y]
           ELSE /\ Retry(spawn).bound <= MaxBound
                /\ spawn' = Retry(spawn)
        /\ UNCHANGED <<program, shared>>

NextSpawn == \E kx \in 0..(Draws - 1), ky \in 0..(Draws - 1) : SpawnIterate(kx, ky)

\* The loop keeps running, and a candidate that can be drawn again and again
\* is drawn at some time.
SpecSpawn ==
    /\ InitSpawn
    /\ [][NextSpawn]_vars
    /\ WF_vars(NextSpawn)
    /\ SF_vars(\E kx \in 0..(Draws - 1), ky \in 0..(Draws - 1) :
                  SpawnIterate(kx, ky) /\ spawn'.pc = "returned")

\* ------------------------------------------------- a game under way
\* A state InitPlaying leads to: session 2 has claimed spore 1 and grown to
\* radius 25, the hub has relayed the claim to sessions 1 and 3, the pumps
\* have written it, and the removal handleSporeConsumed started has run.
\* The frames read from here on are counted from 0.
GrownPacket ==
    Packet(2, [type |-> "SporeConsumed", SporeId |-> 1,
               NewRadius |-> nextRadius(Fix(StartRadius), radiusToMass(Fix(15)))])

InitGrown ==
    /\ shared = NewShared
    /\ spawn = NoSpawn
    /\ Clients = [objectsMap |-> [c \in Seated |-> c], nextId |-> NumConns + 1]
    /\ Players = [objectsMap |-> [c \in Seated |-> c], nextId |-> NumConns + 1]
    /\ Spores = Remove(InitSpores, SporeToRemove(2, 1))
    /\ thread = [T \in Threads |->
                    IF T = HubT
                    THEN [NewThread("select", NumConns) EXCEPT
                             !.id = NumConns, !.pkt = GrownPacket,
                             !.copy = [c \in Seated |-> c]]
                    ELSE IF T[2] = "r" THEN NewThread("read", T[1])
                    ELSE NewThread("range", T[1])]
    /\ id = [c \in Conns |-> c]
    /\ state = [c \in Conns |-> InGameState(c)]
    /\ phase = [c \in Conns |-> "active"]
    /\ sendChan = [c \in Conns |-> <<>>]
    /\ sendClosed = [c \in Conns |-> FALSE]
    /\ conn = [c \in Conns |-> "open"]
    /\ games = [h \in Games |->
                   IF h \notin Seated THEN NoGame
                   ELSE IF h = 2 THEN [SeatedPlayer(h) EXCEPT
                                          !.Radius = GrownPacket.Msg.NewRadius]
                   ELSE SeatedPlayer(h)]
    /\ nGames = NumConns
    /\ tasks = EmptyBag
    /\ frames = 0
    /\ ticks = 0
    /\ validated = [c \in Conns |-> TRUE]
    /\ crashed = FALSE
    /\ misdispatch = "no"
    /\ fanout = [pkt |-> GrownPacket, registry |-> [c \in Seated |-> c],
                 got |-> [c \in Conns |-> IF c = 2 THEN 0 ELSE 1]]

\* The steps of sessions that are in the game
NextDuel ==
    \/ \E T \in Threads : SetStateExit(T)
    \/ \E T \in Threads : SetStateAssign(T)
    \/ \E T \in Threads : SetStateEnter(T)
    \/ \E T \in Threads : HubBroadcast(T)
    \/ \E h \in Games : HubBroadcastSync(h)
    \/ \E k \in 1..NumConns : HubDispatch(k)
    \/ \E c \in Conns, s \in FrameSenders, d \in Directions : RecvPlayerDirection(c, s, d)
    \/ \E c \in Conns, s \in FrameSenders, k \in Conns : RecvPlayerConsumed(c, s, k)
    \/ \E c \in Conns : WritePacket(c)
    \/ RunAddPlayer
    \/ RunRemovePlayer
    \/ RunSendInitialSpores
    \/ RunSocketSend
    \/ \E h \in Games : SyncPlayer(h)
    \/ \E h \in Games : LoopDone(h)

SpecDuel == InitGrown /\ [][NextDuel]_vars

\* ------------------------------------------- a session entering the game
\* A state InitFresh leads to: the hub has registered connection 1 and is in
\* SetState(&Connected{}) of Initialize, after client.state = state and
\* before OnEnter; Serve has started the pumps, and ReadPump has handled a
\* login request that the credential check accepted. The frames read from
\* here on are counted from 0.
InitLoggedIn ==
    /\ shared = NewShared
    /\ spawn = NoSpawn
    /\ Clients = Add(NewSharedCollection, 1)
    /\ Players = NewSharedCollection
    /\ Spores = InitSpores
    /\ thread = [T \in Threads |->
                    IF T = HubT
                    THEN [NewThread("ss_enter", 1) EXCEPT
                             !.id = 1, !.new = ConnectedState, !.ret = "select"]
                    ELSE IF T[1] # 1 THEN NewThread("off", T[1])
                    ELSE IF T[2] = "r" THEN NewThread("read", 1)
                    ELSE NewThread("range", 1)]
    /\ id = [c \in Conns |-> IF c = 1 THEN 1 ELSE 0]
    /\ state = [c \in Conns |-> IF c = 1 THEN ConnectedState ELSE Nil]
    /\ phase = [c \in Conns |-> IF c = 1 THEN "entering" ELSE "none"]
    /\ sendChan = [c \in Conns |->
                      IF c = 1 THEN SocketSend(<<>>, LoginResponse("ok"), 1)
                      ELSE <<>>]
    /\ sendClosed = [c \in Conns |-> FALSE]
    /\ conn = [c \in Conns |-> "open"]
    /\ games = [h \in Games |-> NoGame]
    /\ nGames = 0
    /\ tasks = EmptyBag
    /\ frames = 0
    /\ ticks = 0
    /\ validated = [c \in Conns |-> c = 1]
    /\ crashed = FALSE
    /\ misdispatch = "entering"
    /\ fanout = NoFanout

\* The steps of a session that enters the game and plays alone
NextEntry ==
    \/ \E T \in Threads : SetStateExit(T)
    \/ \E T \in Threads : SetStateAssign(T)
    \/ \E T \in Threads : SetStateEnter(T)
    \/ \E T \in Threads : HubBroadcast(T)
    \/ \E c \in Conns : EnterGame(c)
    \/ \E c \in Conns, s \in FrameSenders, k \in 1..MaxSpores : RecvSporeConsumed(c, s, k)
    \/ \E c \in Conns : WritePacket(c)
    \/ RunAddPlayer
    \/ RunRemoveSpore
    \/ RunSendInitialSpores

SpecEntry == InitLoggedIn /\ [][NextEntry]_vars

\* ----------------------------------------------------------------- claims
\* C1: every ProcessMessage call on a session is dispatched to a handler
\* that is installed and fully entered: never while client.state is nil,
\* never after the handler's OnExit started, never before its OnEnter
\* completed.
DispatchMeetsEnteredHandler == misdispatch = "no"

\* C2: every invocation of Close returns, and once one has returned the
\* session has no handler, is absent from hub.Clients, its transport is
\* closed and its outbound queue is closed.
CloseTearsDown ==
    \A c \in Conns, t \in Pumps :
        thread[PumpT(c, t)].pc = "done" =>
            /\ state[c] = Nil
            /\ ~Found(Clients, id[c])
            /\ conn[c] = "closed"
            /\ sendClosed[c]

\* C3: a session whose transport failed does not stop the hub: the dispatch
\* of a broadcast to such a session, still in the copy ForEach walks, leaves
\* the process running.
FaultIsLocal ==
    [][\A k \in thread[HubT].todo :
          (/\ thread'[HubT].todo = thread[HubT].todo \ {k}
           /\ conn[thread[HubT].copy[k]] # "open") => ~crashed']_vars

\* C4: when the background removal of a validated spore claim has run, the
\* claimed spore is no longer found and every other spore still is.
ClaimedSporeRemoved ==
    [][\A task \in BagToSet(tasks) :
          (task.op = "RemoveSpore" /\ tasks' = Done(task)) =>
              /\ ~Found(Spores', task.claim)
              /\ \A k \in DOMAIN Spores.objectsMap :
                    k # task.claim => Found(Spores', k)]_vars


\* C5: a self-originated spore claim is accepted exactly when the spore is
\* in Spores and the squared distance from the player to it is at most
\* (playerRadius + 10 + sporeRadius) squared; a refused claim changes
\* neither the player nor the spores, starts nothing and sends nothing.
SporeInReach(c, k) ==
    LET p == games[state[c].h]
        sp == Get(Spores, k)
        reach == p.Radius + Fix(10) + sp.Radius
    IN  (p.X - sp.X) * (p.X - sp.X) + (p.Y - sp.Y) * (p.Y - sp.Y) <= reach * reach

Submits(c, type) ==
    /\ thread'[PumpT(c, "r")].pc = "bcast"
    /\ thread'[PumpT(c, "r")].pkt.Msg.type = type

SporeClaimRule ==
    [][\A c \in Conns, k \in 1..MaxSpores :
          RecvSporeConsumed(c, 0, k) =>
              /\ Submits(c, "SporeConsumed")
                    <=> (Found(Spores, k) /\ SporeInReach(c, k))
              /\ ~Submits(c, "SporeConsumed") =>
                    UNCHANGED <<games, Spores, Players, tasks, sendChan,
                                thread, fanout>>]_vars

\* A claim made at exactly the threshold from spore 1 was accepted.
SporeClaimAtThreshold ==
    \E c \in Conns :
        /\ thread[PumpT(c, "r")].pc = "bcast"
        /\ thread[PumpT(c, "r")].pkt.Msg.type = "SporeConsumed"
        /\ thread[PumpT(c, "r")].pkt.Msg.SporeId = 1
        /\ LET p == games[state[c].h]
               reach == Fix(StartRadius) + Fix(10) + InitSpore(1).Radius
           IN  /\ p.X * p.X + p.Y * p.Y = reach * reach
               /\ p.Radius = Fix(25)

\* C6: a self-originated player claim is accepted only if the target is in
\* Players, the actor's mass is more than 1.5 times the target's and the
\* squared distance is at most (actorRadius + 10 + targetRadius) squared;
\* a refused claim removes nobody, leaves the radius and sends nothing.
PlayerClaimOk(c, k) ==
    /\ Found(Players, k)
    /\ LET actor == games[state[c].h]
           target == games[Get(Players, k)]
           reach == actor.Radius + Fix(10) + target.Radius
           dx == actor.X - target.X
           dy == actor.Y - target.Y
       IN  /\ 2 * actor.Radius * actor.Radius > 3 * target.Radius * target.Radius
           /\ dx * dx + dy * dy <= reach * reach

InSetState(c) ==
    \E T \in Threads : /\ thread[T].c = c
                       /\ thread[T].pc \in {"ss_exit", "ss_assign", "ss_enter"}

ClosedForGood(c) ==
    /\ state[c] = Nil
    /\ ~InSetState(c)
    /\ \E t \in Pumps : thread[PumpT(c, t)].pc \in {"unreg", "recv", "done"}

NoPlayerAfterClose ==
    \A c \in Conns :
        (ClosedForGood(c) /\ tasks = EmptyBag) => ~Found(Players, id[c])

\* C8: the handlers of a session follow Connected -> InGame -> InGame: the
\* handler installed on a session that never logged in is Connected, the
\* step that validates a login request starts the transition to InGame,
\* Connected is left for InGame only after a validated login, and InGame is
\* never followed by Connected.
HandlerMachine ==
    [][\A c \in Conns :
          /\ (state[c] = Nil /\ state'[c] # Nil /\ ~validated[c])
                => state'[c] = ConnectedState
          /\ (~validated[c] /\ validated'[c])
                => /\ thread'[PumpT(c, "r")].pc \in {"ss_exit", "ss_assign"}
                   /\ thread'[PumpT(c, "r")].new.name = "InGame"
          /\ (state[c] = ConnectedState /\ state'[c].name = "InGame")
                => validated[c]
          /\ state[c].name = "InGame" => state'[c] # ConnectedState]_vars

\* C9: an enqueue on sendChan never blocks and never takes the queue over
\* its capacity of 256; on a full queue the message is dropped, the queued
\* packets and their order stay, and the session goes on as before.
QueueBounded ==
    [][/\ \A c \in Conns :
            /\ Len(sendChan'[c]) <= SendChanCap
            /\ Len(sendChan[c]) = SendChanCap =>
                  sendChan'[c] \in {sendChan[c], Tail(sendChan[c])}
       /\ ReadFrameWithin(1, QueueSends) => ENABLED QueueLoginRequest
       /\ (QueueLoginRequest /\ Len(sendChan[1]) = SendChanCap) =>
            /\ sendChan' = sendChan
            /\ ~crashed'
            /\ UNCHANGED <<state, phase, conn, sendClosed, thread, Clients>>]_vars

\* The queue is full, nothing was taken from it, and three answers were
\* dropped.
QueueFullAfterDrops ==
    /\ Len(sendChan[1]) = SendChanCap
    /\ Head(sendChan[1]).Msg.type = "Id"
    /\ frames = SendChanCap + 2
    /\ ~crashed
    /\ state[1] = ConnectedState

\* C10: when the walk of a broadcast is over, ProcessMessage was called
\* exactly once on every session that was in hub.Clients when the hub took
\* the broadcast, except the sender, and on no other session.
FanoutOver == fanout.pkt # NoPacket /\ (thread[HubT].todo = {} \/ crashed)

Registered(c) == \E k \in DOMAIN fanout.registry : fanout.registry[k] = c

BroadcastReachesOthers ==
    FanoutOver =>
        /\ \A k \in DOMAIN fanout.registry :
              fanout.got[fanout.registry[k]] =
                  IF k = fanout.pkt.SenderId THEN 0 ELSE 1
        /\ \A c \in Conns : ~Registered(c) => fanout.got[c] = 0

\* The same, for the walks that no panic cuts short
BroadcastReachesOthersUnlessCrashed == crashed \/ BroadcastReachesOthers

\* C11: the identifier Initialize gives a registered session is not zero,
\* differs from the identifier of every other session registered so far,
\* deregistered ones included, is the key of the session in hub.Clients,
\* and never changes afterwards.
IdentifiersUnique ==
    [][\A c \in Conns :
          /\ id[c] # 0 => id'[c] = id[c]
          /\ (thread[HubT].pc = "initialize" /\ thread[HubT].c = c
                /\ thread'[HubT].pc # "initialize") => id'[c] # 0
          /\ \A d \in Conns \ {c} : id'[c] # 0 => id'[c] # id'[d]
          /\ \A k \in DOMAIN Clients'.objectsMap :
                /\ k # 0
                /\ (Clients'.objectsMap[k] = c /\ id'[c] # 0) => id'[c] = k]_vars

\* Session 1 was deregistered and session 2 registered after it.
RegisteredAfterDeregistration ==
    /\ id[1] # 0
    /\ id[2] # 0
    /\ ~Found(Clients, id[1])
    /\ Found(Clients, id[2])
    /\ thread[PumpT(1, "r")].pc \in {"recv", "done"}

\* C16: a session's queue changes only by losing its head or by gaining
\* packets at its tail, and the packet the outbound pump writes is the head:
\* packets are written in the order in which they were accepted, each once.
IsPrefix(q, r) == Len(q) <= Len(r) /\ SubSeq(r, 1, Len(q)) = q

QueueIsFifo ==
    [][\A c \in Conns :
          /\ \/ IsPrefix(sendChan[c], sendChan'[c])
             \/ (sendChan[c] # <<>> /\ sendChan'[c] = Tail(sendChan[c]))
          /\ WritePacket(c) =>
                (sendChan[c] # <<>> /\ sendChan'[c] = Tail(sendChan[c]))]_vars

\* The pump has written the Id packet and two different packets wait.
TwoPacketsInOrder ==
    \E c \in Conns :
        /\ Len(sendChan[c]) >= 2
        /\ sendChan[c][1].Msg.type = "Player"
        /\ sendChan[c][2].Msg.type = "SporesBatch"
        /\ conn[c] = "open"

\* C12: Add, Remove and Get behave as operations on a map. After Add stored
\* obj under an identifier Get of it returns (obj, found); after Remove(k)
\* Get(k) reports not found; Remove of an absent identifier changes nothing;
\* no call touches the entry of another identifier, and Get changes none.
StoresUnder(obj, k) ==
    /\ GetResult(shared'.objs, k) = <<obj, TRUE>>
    /\ \A j \in (1..(2 * MaxKey)) \ {k} :
          GetResult(shared'.objs, j) = GetResult(shared.objs, j)

Removes(k) ==
    /\ GetResult(shared'.objs, k) = <<"", FALSE>>
    /\ \A j \in (1..(2 * MaxKey)) \ {k} :
          GetResult(shared'.objs, j) = GetResult(shared.objs, j)
    /\ ~Found(shared.objs, k) => shared'.objs = shared.objs

Gets(k) ==
    /\ shared'.got = GetResult(shared.objs, k)
    /\ shared'.objs = shared.objs

CollectionIsAMap ==
    [][/\ \A obj \in Objs : CallAdd(obj) => StoresUnder(obj, shared.objs.nextId)
       /\ \A obj \in Objs, k \in Keys : CallAddAs(obj, k) => StoresUnder(obj, k)
       /\ \A k \in Keys : CallRemove(k) => Removes(k)
       /\ \A k \in Keys : CallGet(k) => Gets(k)
       /\ \A k \in 1..(2 * MaxKey), j \in Keys, obj \in Objs :
             Callback(k, j, obj) =>
                CASE shared.callback = "Remove" -> Removes(j)
                  [] shared.callback = "Add" -> StoresUnder(obj, shared.objs.nextId)
                  [] shared.callback = "Get" -> Gets(j)
                  [] OTHER -> shared'.objs = shared.objs
       /\ (ForEachReturn \/ \E cb \in Callbacks : ForEachCopy(cb)) =>
             shared'.objs = shared.objs]_vars

\* A Get found "b" under an identifier that had held "a", and Remove calls
\* have emptied the collection since.
GetAfterOverwriteThenRemove ==
    /\ shared.got = <<"b", TRUE>>
    /\ shared.ret = 1
    /\ shared.lastAuto = 1
    /\ shared.objs.nextId = 3
    /\ shared.objs.objectsMap = EmptyMap

\* C13: a ForEach whose callback calls Remove, Add or Get on the same
\* collection returns: once it has copied the map it is never left waiting
\* for mapMux.
ForEachReturns == (shared.pc = "range") ~> (shared.pc = "done")

\* ForEach has returned after its callback removed entries of its collection.
ReturnedAfterRemoving ==
    /\ shared.pc = "done"
    /\ shared.callback = "Remove"
    /\ Cardinality(DOMAIN shared.localCopy) = 2
    /\ shared.objs.objectsMap = EmptyMap

\* C14: ForEach calls the callback once for every entry the collection held
\* when the copy was made, with the value it held then, and for no other,
\* whatever is added or removed while it runs.
Snapshot(sh) == SetToBag({<<k, sh.localCopy[k]>> : k \in DOMAIN sh.localCopy})

ForEachVisitsSnapshot ==
    /\ shared.pc = "range" => shared.calls \sqsubseteq Snapshot(shared)
    /\ shared.pc = "done" => shared.calls = Snapshot(shared)

\* ForEach has returned from a copy of two entries while its callback added
\* a third one.
ReturnedWhileAdding ==
    /\ shared.pc = "done"
    /\ shared.callback = "Add"
    /\ Cardinality(DOMAIN shared.localCopy) = 2
    /\ Cardinality(DOMAIN shared.objs.objectsMap) > 2

\* C15: Add without an identifier stores under the value of nextId, which is
\* 1 on a fresh collection and greater than every identifier an earlier such
\* Add returned, and returns it; Add with an identifier stores under that
\* identifier and returns it.
AddsUnderNext(obj) ==
    /\ shared'.ret = shared.objs.nextId
    /\ GetResult(shared'.objs, shared'.ret) = <<obj, TRUE>>
    /\ shared'.ret > shared.lastAuto
    /\ shared.objs = NewSharedCollection => shared'.ret = 1

AddAssignsIds ==
    [][/\ \A obj \in Objs : CallAdd(obj) => AddsUnderNext(obj)
       /\ \A k \in 1..(2 * MaxKey), j \in Keys, obj \in Objs :
             (Callback(k, j, obj) /\ shared.callback = "Add") => AddsUnderNext(obj)
       /\ \A obj \in Objs, k \in Keys :
             CallAddAs(obj, k) =>
                /\ shared'.ret = k
                /\ GetResult(shared'.objs, k) = <<obj, TRUE>>]_vars

\* Two Adds without an identifier returned 1 and then 2.
TwoIdsAssigned ==
    /\ shared.lastAuto = 2
    /\ shared.ret = 2
    /\ shared.objs.nextId = 3
    /\ DOMAIN shared.objs.objectsMap = {1, 2}

\* C17: the point SpawnCoords returns is farther from the centre of every
\* circle of both collections than the sum of the two radii, a collection
\* without circles excludes nothing, and the call changes neither collection.
Overlaps(x, y, radius, o) ==
    (o.X - x) * (o.X - x) + (o.Y - y) * (o.Y - y)
        <= (radius + o.Radius) * (radius + o.Radius)

SpawnAvoidsCircles ==
    [][/\ spawn'.playersToAvoid = spawn.playersToAvoid
       /\ spawn'.sporesToAvoid = spawn.sporesToAvoid
       /\ spawn'.radius = spawn.radius
       /\ spawn'.pc = "returned" =>
             \A o \in spawn.playersToAvoid \cup spawn.sporesToAvoid :
                ~Overlaps(spawn'.x, spawn'.y, spawn.radius, o)
       /\ (spawn.playersToAvoid \cup spawn.sporesToAvoid = {}) =>
             spawn'.pc = "returned"]_vars

\* A circle of radius 10 was placed beside a ring it would touch one step
\* further in, with a spore collection given as well.
SpawnedBesideRing ==
    /\ spawn.pc = "returned"
    /\ spawn.radius = 10
    /\ spawn.playersToAvoid = {Ring}
    /\ spawn.sporesToAvoid = {Ring, Dot}
    /\ spawn.x = 1000
    /\ spawn.y = 1000

\* C18: SpawnCoords returns. After maxTries rejected candidates in a row it
\* doubles bound and starts counting again, so that a free candidate comes
\* within reach even when circles cover the initial square.
SpawnCoordsReturns == <>(spawn.pc = "returned")

\* SpawnCoords returned a point of the doubled square after 25 candidates of
\* the covered initial square were rejected.
SpawnedAfterDoubling ==
    /\ spawn.pc = "returned"
    /\ Big \in spawn.playersToAvoid
    /\ spawn.bound = 2 * InitialBound
    /\ spawn.tries = 0

\* C19 as stated: a login request of the session itself that the Connected
\* handler gets puts exactly one response into the queue of that session
\* and nothing into another queue: Ok when the credentials verify, otherwise
\* the same refusal whatever failed; a request under a foreign sender id
\* puts nothing into any queue.
Answers(c, q) ==
    \E resp \in {NewOkResponse, NewDenyResponse} :
        /\ sendChan'[c] = Append(q, Packet(id[c], resp))
        /\ resp = NewOkResponse => validated'[c]
        /\ (~validated[c] /\ validated'[c]) => resp = NewOkResponse

LoginStep(c, s) ==
    /\ RecvLoginRequest(c, s, MaxLogins, LoginOutcomes)
    /\ state[c] = ConnectedState

LoginAnsweredOnce ==
    [][\A s \in LoginSenders :
          LoginStep(1, s) =>
             /\ \A d \in Conns \ {1} : sendChan'[d] = sendChan[d]
             /\ IF SenderOf(1, s) = id[1]
                THEN Answers(1, sendChan[1])
                ELSE sendChan'[1] = sendChan[1]]_vars

\* C19 with the queue taken into account: the one response is handed to
\* SocketSend, which puts it into the queue unless the queue is full and
\* drops it otherwise.
LoginAnsweredUnlessFull ==
    [][\A s \in LoginSenders :
          LoginStep(1, s) =>
             /\ \A d \in Conns \ {1} : sendChan'[d] = sendChan[d]
             /\ IF SenderOf(1, s) = id[1] /\ Len(sendChan[1]) < SendChanCap
                THEN Answers(1, sendChan[1])
                ELSE sendChan'[1] = sendChan[1]]_vars

\* The Ok response took the last place of the queue and the requests after
\* it left the queue as it was.
OkThenFull ==
    /\ Len(sendChan[1]) = SendChanCap
    /\ sendChan[1][SendChanCap].Msg = NewOkResponse
    /\ validated[1]
    /\ frames = MaxLogins

\* C20: InGame.OnEnter returns with the spore stream still to run, and the
\* stream sends every spore of its copy of the collection in exactly one
\* batch: the batches are disjoint, cover the copy, hold at most batchSize
\* spores and, the last one apart, exactly batchSize, and they are as many
\* as that takes.
Streamed(c) == SubSeq(sendChan'[c], Len(sendChan[c]) + 1, Len(sendChan'[c]))

BatchesCover(batches, ids) ==
    /\ \A i \in 1..Len(batches) :
          /\ batches[i].Msg.type = "SporesBatch"
          /\ batches[i].Msg.ids # {}
          /\ Cardinality(batches[i].Msg.ids) <= BatchSize
          /\ i < Len(batches) => Cardinality(batches[i].Msg.ids) = BatchSize
          /\ \A j \in 1..Len(batches) :
                i # j => batches[i].Msg.ids \cap batches[j].Msg.ids = {}
    /\ UNION {batches[i].Msg.ids : i \in 1..Len(batches)} = ids

SporesStreamedOnce ==
    [][/\ RunSendInitialSpores =>
             /\ IsPrefix(sendChan[1], sendChan'[1])
             /\ BatchesCover(Streamed(1), DOMAIN Spores.objectsMap)
       /\ \A T \in Threads :
             (SetStateEnter(T) /\ state[1].name = "InGame") =>
                /\ thread'[T].pc = thread[T].ret
                /\ \E task \in BagToSet(tasks') : task.op = "SendSpores"
                /\ Len(sendChan'[1]) <= Len(sendChan[1]) + 1]_vars

\* 161 spores went out as batches of 80, 80 and 1.
ThreeBatchesQueued ==
    \E i \in 1..3 :
        /\ Len(sendChan[1]) = i + 2
        /\ sendChan[1][i].Msg.type = "SporesBatch"
        /\ Cardinality(sendChan[1][i].Msg.ids) = BatchSize
        /\ Cardinality(sendChan[1][i + 1].Msg.ids) = BatchSize
        /\ Cardinality(sendChan[1][i + 2].Msg.ids) = 1
        /\ Cardinality(DOMAIN Spores.objectsMap) = 2 * BatchSize + 1

\* C27: an Add without an identifier stores under an identifier that no
\* entry of the collection holds at that moment.
AddNeverReplaces ==
    [][/\ \A obj \in Objs :
             CallAdd(obj) => ~Found(shared.objs, shared.objs.nextId)
       /\ \A k \in 1..(2 * MaxKey), j \in Keys, obj \in Objs :
             (Callback(k, j, obj) /\ shared.callback = "Add") =>
                ~Found(shared.objs, shared.objs.nextId)]_vars

\* C25: while a handler is entered, the radius of its player changes only
\* in a step in which a consumption claim of its own session passes the
\* validation, and then the mass of what was consumed is added: the new
\* radius is the root of oldRadius^2 + consumedRadius^2, rounded down to the
\* unit of the model, and greater than the old one.
Entered(h) ==
    /\ games[h].client # 0
    /\ state[games[h].client] = InGameState(h)
    /\ phase[games[h].client] = "active"

ConsumedRadius(msg) ==
    IF msg.type = "SporeConsumed" THEN Get(Spores, msg.SporeId).Radius
    ELSE games[Get(Players, msg.PlayerId)].Radius

ClaimPasses(h, msg) ==
    IF msg.type = "SporeConsumed" THEN SporeClaimValid(games[h], msg.SporeId)
    ELSE PlayerClaimValid(games[h], msg.PlayerId)

MassAdded(old, consumed, new) ==
    /\ new * new <= old * old + consumed * consumed
    /\ old * old + consumed * consumed < (new + 1) * (new + 1)
    /\ new > old

RadiusGrowsByMass ==
    [][\A h \in Games :
          (/\ Entered(h)
           /\ state'[games[h].client] = InGameState(h)
           /\ phase'[games[h].client] = "active"
           /\ games'[h].Radius # games[h].Radius) =>
             LET pkt == thread'[PumpT(games[h].client, "r")].pkt IN
             /\ thread'[PumpT(games[h].client, "r")].pc = "bcast"
             /\ thread[PumpT(games[h].client, "r")].pc = "read"
             /\ pkt.SenderId = id[games[h].client]
             /\ pkt.Msg.type \in {"SporeConsumed", "PlayerConsumed"}
             /\ ClaimPasses(h, pkt.Msg)
             /\ pkt.Msg.NewRadius = games'[h].Radius
             /\ MassAdded(games[h].Radius, ConsumedRadius(pkt.Msg), games'[h].Radius)]_vars

\* C24: a spore is awarded at most once: a validated claim starts the
\* removal of the spore it names, so at no moment do two removals started
\* for the same spore wait to run.
SporeAwardedOnce ==
    \A t1 \in BagToSet(tasks) :
        t1.op = "RemoveSpore" =>
            /\ CopiesIn(t1, tasks) = 1
            /\ \A t2 \in BagToSet(tasks) :
                  (t2.op = "RemoveSpore" /\ t2.claim = t1.claim) => t2 = t1

\* C26: when OnEnter of an InGame handler has placed the player, the circle of
\* the initial radius 20 around the position overlaps no circle of a player
\* that was in Players when the position was computed.
PlacedClearOfPlayers ==
    [][\A T \in Threads :
          (/\ thread[T].pc = "ss_enter"
           /\ thread'[T] # thread[T]
           /\ state[thread[T].c].name = "InGame") =>
             LET p == games'[state[thread[T].c].h] IN
             \A o \in PlayerCircles :
                 ~Overlaps(p.X, p.Y, Fix(StartRadius), o)]_vars

\* C23: the entry a respawn has added to Players under the id of its session
\* stays there for as long as the respawned handler is entered. Handlers are
\* numbered in the order of their construction.
Respawned(h) ==
    \E g \in 1..(h - 1) : games[g].client = games[h].client /\ games[h].client # 0

RespawnStaysRegistered ==
    [][\A h \in Games :
          (/\ Respawned(h)
           /\ Entered(h)
           /\ state'[games[h].client] = InGameState(h)
           /\ phase'[games[h].client] = "active"
           /\ Found(Players, id[games[h].client])
           /\ Get(Players, id[games[h].client]) = h) =>
             Found(Players', id[games[h].client])]_vars

\* C22: an InGame handler that is handed a player-consumed message of a peer
\* queues it for its own connection, and calls SetState with a new InGame
\* handler that has the display name and nothing else when the victim is its
\* own session, and makes no transition for another victim. OnEnter of the
\* new handler leaves the player with radius 20, speed 15 and a position
\* SpawnCoords drew, and the physics loop of a handler starts only in a
\* direction update of its own session.
RespawnOnOwnConsumption ==
    [][/\ \A k \in 1..NumConns :
             LET c == thread[HubT].copy[k]
                 pkt == thread[HubT].pkt
                 st == state[c]
             IN  (/\ HubDispatch(k)
                  /\ st.name = "InGame"
                  /\ pkt.Msg.type = "PlayerConsumed") =>
                    /\ Len(sendChan[c]) < SendChanCap =>
                          sendChan'[c] = Append(sendChan[c], pkt)
                    /\ IF pkt.Msg.PlayerId = id[c]
                       THEN /\ thread'[HubT].pc = "ss_exit"
                            /\ thread'[HubT].c = c
                            /\ thread'[HubT].new = InGameState(nGames + 1)
                            /\ games'[nGames + 1] = NewInGame(c, games[st.h].Name)
                       ELSE /\ thread'[HubT].pc \in {"fanout", "select"}
                            /\ thread'[HubT].new = Nil
                            /\ games' = games
       /\ \A T \in Threads, h \in Games :
             (/\ SetStateEnter(T)
              /\ state[thread[T].c] = InGameState(h)
              /\ Respawned(h)) =>
                /\ games'[h].Radius = Fix(StartRadius)
                /\ games'[h].Speed = Fix(StartSpeed)
                /\ <<games'[h].X, games'[h].Y>> \in SpawnPts
                /\ \E g \in 1..(h - 1) : /\ games[g].client = games[h].client
                                         /\ games'[h].Name = games[g].Name
                /\ games'[h].loop = games[h].loop
                /\ games'[h].cancel = games[h].cancel
       /\ \A h \in Games :
             (games[h].loop = "none" /\ games'[h].loop # "none") =>
                /\ state[games[h].client] = InGameState(h)
                /\ \E s \in FrameSenders, d \in Directions :
                      /\ RecvPlayerDirection(games[h].client, s, d)
                      /\ SenderOf(games[h].client, s) = id[games[h].client]]_vars

\* A consumed session has respawned: its queue holds the relayed message,
\* and its new handler is entered with radius 20 and no physics loop.
RespawnedFresh ==
    \E h \in Games :
        /\ Respawned(h)
        /\ Entered(h)
        /\ games[h].Radius = Fix(StartRadius)
        /\ games[h].Speed = Fix(StartSpeed)
        /\ games[h].loop = "none"
        /\ \E i \in DOMAIN sendChan[games[h].client] :
              /\ sendChan[games[h].client][i].Msg.type = "PlayerConsumed"
              /\ sendChan[games[h].client][i].Msg.PlayerId = id[games[h].client]

\* C28: the hub never sends on one of its own channels (its goroutine is
\* never the one waiting in Broadcast or in Close's send on UnregisterChan),
\* and whenever a Broadcast of a pump or of a physics loop, or a Close, waits
\* for the hub, the event loop is still running to serve it.
HubServesPending ==
    /\ thread[HubT].pc \notin {"bcast", "unreg"}
    /\ (\/ \E T \in Threads : thread[T].pc \in {"bcast", "unreg"}
        \/ \E h \in Games : games[h].loop = "bcast") => ~crashed

\* C21: a handler whose OnExit has run has no physics loop that goes on
\* ticking: its loop was never started, has stopped, or has been cancelled.
Exited(h) ==
    /\ games[h].client # 0
    /\ \/ state[games[h].client] # InGameState(h)
       \/ phase[games[h].client] = "exiting"
    /\ \A T \in Threads : thread[T].new # InGameState(h)

ExitedLoopCancelled ==
    \A h \in Games :
        Exited(h) => (games[h].loop \in {"none", "stopped"} \/ games[h].done)

====
